---- MODULE Spec2Model ----
(***************************************************************************)
(* CVX-Core validators: the cross-language runner (validators/run_all.py), *)
(* the cvxpy validator (validators/python/validate_cvxpy.py) and the atom  *)
(* catalog they share (validators/common/spec_loader.py).                  *)
(*                                                                         *)
(* Text is a sequence of tokens: ":" "/" " " "\n" and the ten digits are   *)
(* one-character tokens, every other token is a word (a maximal run of     *)
(* other characters).  Optional values are <<>> (None) or <<v>>.           *)
(***************************************************************************)
EXTENDS Integers, Sequences, FiniteSets, TLC

VARIABLES
    pc,           \* run_all.main: position in the body of main
    args,         \* run_all.main: the parsed command line
    languages,    \* run_all.main: the local `languages`
    results,      \* run_all.main: the local `results`
    invoked,      \* history: what each child process invocation really did
    report,       \* what main printed: the table or the JSON array
    exit_status,  \* run_all's process exit status
    v_pc,         \* validate_cvxpy: position in the module body / main
    env,          \* validate_cvxpy: the environment of the run
    specs,        \* validate_cvxpy.main: the local `specs`
    v_results,    \* validate_cvxpy.main: the local `results`
    stdout,       \* validate_cvxpy: what the process printed
    v_exit,       \* validate_cvxpy: the process exit status
    call          \* the last call of a pure function: its arguments and value

vars == <<pc, args, languages, results, invoked, report, exit_status,
          v_pc, env, specs, v_results, stdout, v_exit, call>>

orch_vars == <<pc, args, languages, results, invoked, report, exit_status>>
val_vars == <<v_pc, env, specs, v_results, stdout, v_exit>>

\* ------------------------------------------------------------------ bounds
MaxAtoms == 2
MaxLines == 2

\* ------------------------------------------------------- optional values
None == <<>>
Some(v) == <<v>>
\* Python truthiness of an Optional[str]
Truthy(e) == e # None /\ e[1] # ""

\* ------------------------------------------------------------- str methods
Digits == {"0", "1", "2", "3", "4", "5", "6", "7", "8", "9"}
DigitSeq == <<"0", "1", "2", "3", "4", "5", "6", "7", "8", "9">>
Whitespace == {" ", "\n"}

RECURSIVE Flatten(_)
Flatten(ss) == IF ss = <<>> THEN <<>> ELSE Head(ss) \o Flatten(Tail(ss))

\* sub in s
Contains(s, sub) ==
    \E i \in 0..(Len(s) - Len(sub)) : SubSeq(s, i + 1, i + Len(sub)) = sub

\* s.split(sep) for a one-character sep: always at least one field
RECURSIVE SplitOn(_, _)
SplitOn(s, sep) ==
    IF \E i \in 1..Len(s) : s[i] = sep
    THEN LET i == CHOOSE k \in 1..Len(s) :
                     s[k] = sep /\ \A j \in 1..(k - 1) : s[j] # sep
         IN <<SubSeq(s, 1, i - 1)>> \o SplitOn(SubSeq(s, i + 1, Len(s)), sep)
    ELSE <<s>>

RECURSIVE LStrip(_)
LStrip(s) == IF s # <<>> /\ Head(s) \in Whitespace THEN LStrip(Tail(s)) ELSE s

RECURSIVE RStrip(_)
RStrip(s) ==
    IF s # <<>> /\ s[Len(s)] \in Whitespace THEN RStrip(SubSeq(s, 1, Len(s) - 1)) ELSE s

\* s.strip()
Strip(s) == RStrip(LStrip(s))

\* s.split(): the maximal runs of non-whitespace
RECURSIVE SplitWords(_)
SplitWords(s) ==
    LET t == LStrip(s)
    IN IF t = <<>> THEN <<>>
       ELSE LET n == IF \E i \in 1..Len(t) : t[i] \in Whitespace
                     THEN (CHOOSE k \in 1..Len(t) :
                              t[k] \in Whitespace /\ \A j \in 1..(k - 1) : t[j] \notin Whitespace) - 1
                     ELSE Len(t)
            IN <<SubSeq(t, 1, n)>> \o SplitWords(SubSeq(t, n + 1, Len(t)))

DigitVal(d) == CHOOSE v \in 0..9 : DigitSeq[v + 1] = d

\* int(s) succeeds on a nonempty run of digits
IsIntLiteral(s) == s # <<>> /\ \A i \in 1..Len(s) : s[i] \in Digits

RECURSIVE IntOf(_)
IntOf(s) == IF s = <<>> THEN 0 ELSE 10 * IntOf(SubSeq(s, 1, Len(s) - 1)) + DigitVal(s[Len(s)])

\* str(n) / f"{n}" for n >= 0
RECURSIVE DecStr(_)
DecStr(n) == IF n < 10 THEN <<DigitSeq[n + 1]>> ELSE DecStr(n \div 10) \o <<DigitSeq[(n % 10) + 1]>>

\* ===================================================================
\* validators/run_all.py
\* ===================================================================

\* A child process as subprocess.run sees it.  kind: "completed" (the child
\* ran to its exit), "timeout" (TimeoutExpired), "not_found" (FileNotFoundError:
\* the executable or the cwd is absent), "os_error" (any other Exception at
\* spawn, errmsg = str(e), which for an OSError is never empty).
Proc(kind, returncode, out, err, errmsg) ==
    [kind |-> kind, returncode |-> returncode, stdout |-> out, stderr |-> err,
     errmsg |-> errmsg]

ValidatorResult(language, success, passed, total, output, error) ==
    [language |-> language, success |-> success, passed |-> passed,
     total |-> total, output |-> output, error |-> error]

SummaryMarker == <<"Validation", " ", "Results", ":">>

\* passed, total = map(int, nums.split("/")): the ValueError it raises, or None
unpack_error(fields) ==
    IF ~IsIntLiteral(fields[1]) THEN Some("invalid literal for int() with base 10")
    ELSE IF Len(fields) < 2 THEN Some("not enough values to unpack (expected 2, got 1)")
    ELSE IF ~IsIntLiteral(fields[2]) THEN Some("invalid literal for int() with base 10")
    ELSE IF Len(fields) = 2 THEN None
    ELSE IF ~IsIntLiteral(fields[3]) THEN Some("invalid literal for int() with base 10")
    ELSE Some("too many values to unpack (expected 2)")

\* the body of `for line in output.split("\n")`; acc = [passed, total, raised]
parse_line(line, acc) ==
    IF ~Contains(line, SummaryMarker) THEN acc
    ELSE LET segs == SplitOn(line, ":")
             parts == Strip(segs[Len(segs)])
         IN IF ~Contains(parts, <<"/">>) THEN acc
            ELSE LET nums == SplitWords(parts)[1]
                     fields == SplitOn(nums, "/")
                     raised == unpack_error(fields)
                 IN IF raised # None
                    THEN [acc EXCEPT !.raised = raised]
                    ELSE [passed |-> IntOf(fields[1]), total |-> IntOf(fields[2]),
                          raised |-> None]

RECURSIVE parse_lines(_, _)
parse_lines(lines, acc) ==
    IF lines = <<>> THEN acc
    ELSE LET r == parse_line(Head(lines), acc)
         IN IF r.raised # None THEN r ELSE parse_lines(Tail(lines), r)

\* "Parse output to extract pass/total": passed, total = 0, 0 and the loop
parse_output(output) ==
    parse_lines(SplitOn(output, "\n"), [passed |-> 0, total |-> 0, raised |-> None])

\* what a run_*_validator returns when subprocess.run returned: the body of its
\* try block, and the `except Exception` clause for what the parsing raises
completed_result(language, proc) ==
    LET output == proc.stdout \o proc.stderr
        p == parse_output(output)
    IN IF p.raised # None
       THEN ValidatorResult(language, FALSE, 0, 0, <<>>, p.raised)
       ELSE ValidatorResult(language, proc.returncode = 0, p.passed, p.total, output, None)

run_python_validator(proc) ==
    LET language == "python/cvxpy"
    IN CASE proc.kind = "completed" -> completed_result(language, proc)
         [] proc.kind = "timeout" ->
                ValidatorResult(language, FALSE, 0, 0, <<>>, Some("Timeout after 60 seconds"))
         [] OTHER -> ValidatorResult(language, FALSE, 0, 0, <<>>, Some(proc.errmsg))

run_typescript_validator(cvxjs_dir_exists, proc) ==
    LET language == "typescript/cvxjs"
    IN IF ~cvxjs_dir_exists
       THEN ValidatorResult(language, FALSE, 0, 0, <<>>,
                            Some("cvxjs directory not found at {cvxjs_dir}"))
       ELSE CASE proc.kind = "completed" -> completed_result(language, proc)
              [] proc.kind = "not_found" ->
                     ValidatorResult(language, FALSE, 0, 0, <<>>,
                                     Some("npx/tsx not found. Install with: npm install -g tsx"))
              [] proc.kind = "timeout" ->
                     ValidatorResult(language, FALSE, 0, 0, <<>>, Some("Timeout after 60 seconds"))
              [] OTHER -> ValidatorResult(language, FALSE, 0, 0, <<>>, Some(proc.errmsg))

run_rust_validator(rust_dir_exists, proc) ==
    LET language == "rust/cvxrust"
    IN IF ~rust_dir_exists
       THEN ValidatorResult(language, FALSE, 0, 0, <<>>,
                            Some("Rust validator directory not found at {rust_dir}"))
       ELSE CASE proc.kind = "completed" -> completed_result(language, proc)
              [] proc.kind = "not_found" ->
                     ValidatorResult(language, FALSE, 0, 0, <<>>,
                                     Some("cargo not found. Install Rust from rustup.rs"))
              [] proc.kind = "timeout" ->
                     ValidatorResult(language, FALSE, 0, 0, <<>>, Some("Timeout after 120 seconds"))
              [] OTHER -> ValidatorResult(language, FALSE, 0, 0, <<>>, Some(proc.errmsg))

\* row_status with the override of line 233-234 left out
row_status_no_error(r) == IF r.success THEN "PASS" ELSE "FAIL"

\* the Status column of one table row
row_status(r) ==
    IF Truthy(r.error) THEN "ERROR" ELSE IF r.success THEN "PASS" ELSE "FAIL"

\* print_summary: the rows of the table and the overall line
print_summary(rs) ==
    [rows |-> [i \in 1..Len(rs) |->
                  [language |-> rs[i].language, status |-> row_status(rs[i]),
                   passed |-> rs[i].passed, total |-> rs[i].total,
                   error_line |-> IF Truthy(rs[i].error) THEN rs[i].error ELSE None]],
     all_passed |-> \A i \in 1..Len(rs) : ~Truthy(rs[i].error) /\ rs[i].success]

\* the array main hands to json.dumps under --json (None prints as null)
json_output(rs) ==
    [i \in 1..Len(rs) |->
        [language |-> rs[i].language, success |-> rs[i].success,
         passed |-> rs[i].passed, total |-> rs[i].total, error |-> rs[i].error]]

\* main_exit_status with any() in place of all()
main_exit_status_any(rs) == IF ~(\E i \in 1..Len(rs) : rs[i].success) THEN 1 ELSE 0

\* "Exit with error if any validator failed"; returning from main exits 0
main_exit_status(rs) == IF ~(\A i \in 1..Len(rs) : rs[i].success) THEN 1 ELSE 0

\* ===================================================================
\* validators/common/spec_loader.py
\* ===================================================================

Curvature == {"constant", "affine", "convex", "concave", "unknown"}
Sign == {"nonnegative", "nonpositive", "unknown", "zero"}

\* description, monotonicity and parameters are carried by the dataclass and
\* read by no validator; they are left out of the record
AtomSpec(name, curvature, sign, arity, dcp_requires) ==
    [name |-> name, curvature |-> curvature, sign |-> sign, arity |-> arity,
     dcp_requires |-> dcp_requires]

requires_affine_arg(spec) == spec.dcp_requires = Some("affine_arg")

\* AtomSpecs: three dicts, each a function from its names to AtomSpec
AtomSpecs(affine_atoms, convex_atoms, concave_atoms) ==
    [affine_atoms |-> affine_atoms, convex_atoms |-> convex_atoms,
     concave_atoms |-> concave_atoms]

\* AtomSpecs.get: a.get(name) or b.get(name) or c.get(name); an AtomSpec is truthy
get(sp, name) ==
    IF name \in DOMAIN sp.affine_atoms THEN Some(sp.affine_atoms[name])
    ELSE IF name \in DOMAIN sp.convex_atoms THEN Some(sp.convex_atoms[name])
    ELSE IF name \in DOMAIN sp.concave_atoms THEN Some(sp.concave_atoms[name])
    ELSE None

\* AtomSpecs.all_atoms: {**affine, **convex, **concave}, the later dict wins
all_atoms(sp) ==
    [n \in DOMAIN sp.affine_atoms \cup DOMAIN sp.convex_atoms \cup DOMAIN sp.concave_atoms |->
        IF n \in DOMAIN sp.concave_atoms THEN sp.concave_atoms[n]
        ELSE IF n \in DOMAIN sp.convex_atoms THEN sp.convex_atoms[n]
        ELSE sp.affine_atoms[n]]

\* A value yaml.safe_load returns for a field: a string or a mapping
Str(token) == <<"str", token>>
Dict == <<"dict">>
isinstance_str(raw) == raw[1] = "str"

\* d.get(key, default), the entry of key being None (absent) or Some(value)
DictGet(entry, default) == IF entry = None THEN default ELSE entry[1]

\* the record of one atom in atoms.yaml: each key absent or present
AtomData(curvature, sign, arity, dcp_requires) ==
    [curvature |-> curvature, sign |-> sign, arity |-> arity, dcp_requires |-> dcp_requires]

\* _parse_sign
parse_sign(raw) ==
    IF isinstance_str(raw)
    THEN IF raw[2] = "nonnegative" THEN "nonnegative"
         ELSE IF raw[2] = "nonpositive" THEN "nonpositive"
         ELSE IF raw[2] = "unknown" THEN "unknown"
         ELSE IF raw[2] \in {"from_value", "from_attributes", "preserve"} THEN "unknown"
         ELSE "unknown"
    ELSE "unknown"

\* _parse_atom: the AtomSpec, or None when Curvature(curvature_raw) raises
\* ValueError
parse_atom(name, data, default_curvature) ==
    LET curvature_raw == DictGet(data.curvature, Str(default_curvature))
        curvature == IF ~isinstance_str(curvature_raw) THEN Some(default_curvature)
                     ELSE IF curvature_raw[2] = "preserve" THEN Some(default_curvature)
                     ELSE IF curvature_raw[2] \in Curvature THEN Some(curvature_raw[2])
                     ELSE None
    IN IF curvature = None THEN None
       ELSE Some(AtomSpec(name, curvature[1],
                          parse_sign(DictGet(data.sign, Str("unknown"))),
                          DictGet(data.arity, "unary"),
                          data.dcp_requires))

\* one of the three loops of load_specs: the dict it fills, or None when
\* _parse_atom raised
parse_partition(atoms, default_curvature) ==
    IF \E n \in DOMAIN atoms : parse_atom(n, atoms[n], default_curvature) = None
    THEN None
    ELSE Some([n \in DOMAIN atoms |-> parse_atom(n, atoms[n], default_curvature)[1]])

\* load_specs on what yaml.safe_load made of atoms.yaml (None: open or the
\* parser raised); a section the document lacks is an empty mapping.  The
\* AtomSpecs, or None when the load raised.
load_specs(source) ==
    IF source = None THEN None
    ELSE LET data == source[1]
             affine_atoms == parse_partition(data.affine_atoms, "affine")
             convex_atoms == parse_partition(data.convex_atoms, "convex")
             concave_atoms == parse_partition(data.concave_atoms, "concave")
         IN IF affine_atoms = None \/ convex_atoms = None \/ concave_atoms = None
            THEN None
            ELSE Some(AtomSpecs(affine_atoms[1], convex_atoms[1], concave_atoms[1]))

\* ===================================================================
\* validators/python/validate_cvxpy.py
\* ===================================================================

\* Keys of ATOM_MAP in dict order; the model keeps the first MaxAtoms of this
\* selection of the 22 keys
CatalogNames == <<"sum", "abs", "maximum", "quad_form", "log", "sqrt">>
AtomOrder == SubSeq(CatalogNames, 1, MaxAtoms)
ATOM_MAP == {AtomOrder[i] : i \in 1..Len(AtomOrder)}

BINARY_ATOMS == {"maximum", "minimum", "quad_form", "quad_over_lin"}

\* What cvxpy does with one atom (ATOM_MAP[name], the callable): whether building
\* the test expression raises, the flags the built expression reports, and what
\* applying the atom to sum_squares(x) does: "raises", or the curvature of the
\* result, "convex_nonaffine" (is_convex and not is_affine) or "other".
AtomFunc(raises, is_convex, is_concave, is_affine, is_constant, is_nonneg, is_nonpos, probe) ==
    [raises |-> raises,
     expr |-> [is_convex |-> is_convex, is_concave |-> is_concave,
               is_affine |-> is_affine, is_constant |-> is_constant,
               is_nonneg |-> is_nonneg, is_nonpos |-> is_nonpos],
     probe |-> probe]

\* create_test_expression: the expression, or None when building it raised
create_test_expression(atom_name, atom_func) ==
    IF atom_func.raises THEN None ELSE Some(atom_func.expr)

\* the line create_test_expression prints when building raised
warning_line(atom_name) ==
    <<" ", " ", "Warning", ":", " ", "Could", " ", "not", " ", "create", " ",
      "expression", " ", "for", " ", atom_name, ":", " ", "{e}", "\n">>

\* check_curvature with the convex and concave rules as strict as the diagnostic
check_curvature_strict(expr, expected) ==
    LET actual == IF expr.is_constant THEN "constant"
                  ELSE IF expr.is_affine THEN "affine"
                  ELSE IF expr.is_convex /\ ~expr.is_concave THEN "convex"
                  ELSE IF expr.is_concave /\ ~expr.is_convex THEN "concave"
                  ELSE "unknown"
        passed == IF expected = "constant" THEN expr.is_constant
                  ELSE IF expected = "affine" THEN expr.is_affine
                  ELSE IF expected = "convex" THEN expr.is_convex /\ ~expr.is_concave
                  ELSE IF expected = "concave" THEN expr.is_concave /\ ~expr.is_convex
                  ELSE TRUE
    IN <<passed, <<"expected", " ", expected, ",", " ", "got", " ", actual>>>>

check_curvature(expr, expected) ==
    LET actual == IF expr.is_constant THEN "constant"
                  ELSE IF expr.is_affine THEN "affine"
                  ELSE IF expr.is_convex /\ ~expr.is_concave THEN "convex"
                  ELSE IF expr.is_concave /\ ~expr.is_convex THEN "concave"
                  ELSE "unknown"
        passed == IF expected = "constant" THEN expr.is_constant
                  ELSE IF expected = "affine" THEN expr.is_affine
                  ELSE IF expected = "convex" THEN expr.is_convex
                  ELSE IF expected = "concave" THEN expr.is_concave
                  ELSE TRUE
    IN <<passed, <<"expected", " ", expected, ",", " ", "got", " ", actual>>>>

check_sign(expr, expected) ==
    LET actual == IF expr.is_nonneg /\ expr.is_nonpos THEN "zero"
                  ELSE IF expr.is_nonneg THEN "nonnegative"
                  ELSE IF expr.is_nonpos THEN "nonpositive"
                  ELSE "unknown"
        passed == IF expected = "nonnegative" THEN expr.is_nonneg
                  ELSE IF expected = "nonpositive" THEN expr.is_nonpos
                  ELSE IF expected = "zero" THEN expr.is_nonneg /\ expr.is_nonpos
                  ELSE TRUE
    IN <<passed, <<"expected", " ", expected, ",", " ", "got", " ", actual>>>>

check_dcp_with_non_affine(atom_name, atom_func, spec) ==
    IF ~requires_affine_arg(spec) THEN <<TRUE, <<"no", " ", "affine", " ", "requirement">>>>
    ELSE IF atom_name = "quad_form"
    THEN IF atom_func.probe = "raises"
         THEN <<TRUE, <<"rejected", " ", "with", ":", " ", "{e}">>>>
         ELSE <<TRUE, <<"composition", " ", "check", " ", "passed">>>>
    ELSE IF atom_name \in BINARY_ATOMS
    THEN <<TRUE, <<"skipped", " ", "binary", " ", "atom">>>>
    ELSE IF atom_func.probe = "raises"
    THEN <<TRUE, <<"correctly", " ", "rejected", " ", "non-affine">>>>
    ELSE <<TRUE, <<"composition", " ", "check", " ", "passed">>>>

ValidationResult(atom_name, passed, checks) ==
    [atom_name |-> atom_name, passed |-> passed, checks |-> checks]

\* ValidationResult.failed_checks
failed_checks(r) == SelectSeq(r.checks, LAMBDA c : ~c[2])

\* validate_atom returning at the first failed check
validate_atom_first_failure(atom_name, spec, cvxpy) ==
    IF atom_name \notin ATOM_MAP
    THEN ValidationResult(atom_name, FALSE,
             <<<<"exists", FALSE,
                 <<"atom", " ", "'", atom_name, "'", " ", "not", " ", "mapped", " ", "to", " ", "cvxpy">>>>>>)
    ELSE
    LET atom_func == cvxpy[atom_name]
        c1 == <<"exists", TRUE, <<"atom", " ", "exists", " ", "in", " ", "cvxpy">>>>
        expr == create_test_expression(atom_name, atom_func)
    IN IF expr = None
       THEN ValidationResult(atom_name, FALSE,
                <<c1, <<"creates_expr", FALSE,
                        <<"could", " ", "not", " ", "create", " ", "expression">>>>>>)
       ELSE
       LET c2 == <<"creates_expr", TRUE, <<"expression", " ", "created">>>>
           curv == check_curvature(expr[1], spec.curvature)
           sgn == check_sign(expr[1], spec.sign)
           dcp == check_dcp_with_non_affine(atom_name, atom_func, spec)
           checks == <<c1, c2, <<"curvature", curv[1], curv[2]>>,
                       <<"sign", sgn[1], sgn[2]>>,
                       <<"dcp_requirement", dcp[1], dcp[2]>>>>
       IN IF ~curv[1] THEN ValidationResult(atom_name, FALSE, SubSeq(checks, 1, 3))
          ELSE IF ~sgn[1] THEN ValidationResult(atom_name, FALSE, SubSeq(checks, 1, 4))
          ELSE ValidationResult(atom_name, \A i \in 1..Len(checks) : checks[i][2], checks)

\* validate_atom; cvxpy is the library: the callables of ATOM_MAP, by name
validate_atom(atom_name, spec, cvxpy) ==
    IF atom_name \notin ATOM_MAP
    THEN ValidationResult(atom_name, FALSE,
             <<<<"exists", FALSE,
                 <<"atom", " ", "'", atom_name, "'", " ", "not", " ", "mapped", " ", "to", " ", "cvxpy">>>>>>)
    ELSE
    LET atom_func == cvxpy[atom_name]
        c1 == <<"exists", TRUE, <<"atom", " ", "exists", " ", "in", " ", "cvxpy">>>>
        expr == create_test_expression(atom_name, atom_func)
    IN IF expr = None
       THEN ValidationResult(atom_name, FALSE,
                <<c1, <<"creates_expr", FALSE,
                        <<"could", " ", "not", " ", "create", " ", "expression">>>>>>)
       ELSE
       LET c2 == <<"creates_expr", TRUE, <<"expression", " ", "created">>>>
           curv == check_curvature(expr[1], spec.curvature)
           sgn == check_sign(expr[1], spec.sign)
           dcp == check_dcp_with_non_affine(atom_name, atom_func, spec)
           checks == <<c1, c2, <<"curvature", curv[1], curv[2]>>,
                       <<"sign", sgn[1], sgn[2]>>,
                       <<"dcp_requirement", dcp[1], dcp[2]>>>>
       IN ValidationResult(atom_name, \A i \in 1..Len(checks) : checks[i][2], checks)

\* validate_all: the loop over ATOM_MAP from its i-th key on
RECURSIVE validate_all_from(_, _, _)
validate_all_from(i, sp, cvxpy) ==
    IF i > Len(AtomOrder) THEN <<>>
    ELSE LET spec == get(sp, AtomOrder[i])
         IN (IF spec = None THEN <<>>
             ELSE <<validate_atom(AtomOrder[i], spec[1], cvxpy)>>)
            \o validate_all_from(i + 1, sp, cvxpy)

validate_all(sp, cvxpy) == validate_all_from(1, sp, cvxpy)

\* what validate_all prints: one warning per atom whose expression failed to build
RECURSIVE validate_all_prints(_, _, _)
validate_all_prints(i, sp, cvxpy) ==
    IF i > Len(AtomOrder) THEN <<>>
    ELSE (IF get(sp, AtomOrder[i]) # None /\ cvxpy[AtomOrder[i]].raises
          THEN warning_line(AtomOrder[i]) ELSE <<>>)
         \o validate_all_prints(i + 1, sp, cvxpy)

Rule == "===="

\* print_results: the text it prints
print_results(rs) ==
    LET ok == SelectSeq(rs, LAMBDA r : r.passed)
        failures == SelectSeq(rs, LAMBDA r : ~r.passed)
        passed == Len(ok)
        total == Len(rs)
        check_lines(r) ==
            Flatten([j \in 1..Len(failed_checks(r)) |->
                <<" ", " ", " ", " ", "FAIL", " ", failed_checks(r)[j][1], ":", " ">>
                \o failed_checks(r)[j][3] \o <<"\n">>])
    IN <<"\n", Rule, "\n",
         "CVXPY", " ", "Validation", " ", "Results", ":", " ">>
       \o DecStr(passed) \o <<"/">> \o DecStr(total)
       \o <<" ", "atoms", " ", "passed", "\n", Rule, "\n", "\n">>
       \o (IF failures # <<>>
           THEN <<"FAILURES", ":", "\n", "----", "\n">>
                \o Flatten([i \in 1..Len(failures) |->
                      <<"\n", " ", " ", failures[i].atom_name, ":", "\n">>
                      \o check_lines(failures[i])])
           ELSE <<>>)
       \o (IF ok # <<>>
           THEN <<"\n", "PASSED", " ", "(">> \o DecStr(Len(ok)) \o <<")", ":", "\n", "----", "\n">>
                \o Flatten([i \in 1..Len(ok) |-> <<" ", " ", ok[i].atom_name, "\n">>])
           ELSE <<>>)
       \o <<"\n">>

\* main exiting 1 on any failure instead of with the count
main_exit_flag(rs) == IF SelectSeq(rs, LAMBDA r : ~r.passed) # <<>> THEN 1 ELSE 0

\* sys.exit(len(failures)): the status the parent reads is the low byte
main_exit(rs) == Len(SelectSeq(rs, LAMBDA r : ~r.passed)) % 256

\* ---- the module body and main() of validate_cvxpy.py

ImportErrorText ==
    <<"ERROR", ":", " ", "cvxpy", " ", "not", " ", "installed.", " ", "Run", ":", " ",
      "pip", " ", "install", " ", "cvxpy", "\n">>
LoadingText == <<"Loading", " ", "CVX-Core", " ", "specifications...", "\n">>
LoadedText(n) == <<"Loaded", " ">> \o DecStr(n) \o <<" ", "atom", " ", "specifications", "\n">>
ValidatingText == <<"\n", "Validating", " ", "cvxpy", " ", "implementation...", "\n">>
\* what the interpreter writes to stderr when load_specs raises out of main
TracebackText ==
    <<"Traceback", " ", "(most", " ", "recent", " ", "call", " ", "last)", ":", "\n",
      "FileNotFoundError", ":", " ", "{e}", "\n">>

\* The environment of one validator process: whether `import cvxpy` succeeds,
\* what load_specs() makes of specs/atoms.yaml (None: open or yaml.safe_load
\* raises), and the library's behaviour on each catalog atom.
Env(cvxpy_installed, atoms_yaml, cvxpy) ==
    [cvxpy_installed |-> cvxpy_installed, atoms_yaml |-> atoms_yaml, cvxpy |-> cvxpy]

\* One whole run of the validator process: its exit status and what it wrote,
\* with how far it got (phase) and its list of failing atoms
ValidatorMain(e) ==
    IF ~e.cvxpy_installed
    THEN [returncode |-> 1, stdout |-> ImportErrorText, stderr |-> <<>>,
          phase |-> "import_error", results |-> <<>>]
    ELSE IF e.atoms_yaml = None
    THEN [returncode |-> 1, stdout |-> LoadingText, stderr |-> TracebackText,
          phase |-> "load_error", results |-> <<>>]
    ELSE LET sp == e.atoms_yaml[1]
             rs == validate_all(sp, e.cvxpy)
         IN [returncode |-> main_exit(rs),
             stdout |-> LoadingText \o LoadedText(Cardinality(DOMAIN all_atoms(sp)))
                        \o ValidatingText \o validate_all_prints(1, sp, e.cvxpy)
                        \o print_results(rs),
             stderr |-> <<>>,
             phase |-> "validated", results |-> rs]

\* ---- the inputs

\* the entry atoms.yaml holds for one catalog atom: none, or the partition it is
\* listed in with its loaded fields
SpecChoices ==
    { [partition |-> "absent", curvature |-> "unknown", sign |-> "unknown", dcp_requires |-> None],
      [partition |-> "affine", curvature |-> "affine", sign |-> "unknown", dcp_requires |-> None],
      [partition |-> "convex", curvature |-> "convex", sign |-> "nonnegative",
       dcp_requires |-> Some("affine_arg")],
      [partition |-> "concave", curvature |-> "concave", sign |-> "unknown",
       dcp_requires |-> Some("affine_arg")] }

Partition(choice, part) ==
    [n \in {m \in DOMAIN choice : choice[m].partition = part} |->
        AtomSpec(n, choice[n].curvature, choice[n].sign, "unary", choice[n].dcp_requires)]

\* an atom the specification lists and ATOM_MAP does not
ExtraAtom == "huber"

\* the catalog load_specs returns for a source with these entries
CatalogOf(ch) ==
    AtomSpecs(Partition(ch, "affine"),
              Partition(ch, "convex") @@
                  (ExtraAtom :> AtomSpec(ExtraAtom, "convex", "nonnegative", "unary", None)),
              Partition(ch, "concave"))

Catalogs == {CatalogOf(ch) : ch \in [ATOM_MAP -> SpecChoices]}

\* behaviours of the library on one atom: building raises; an affine, a convex
\* nonnegative, a concave and an unclassified expression
AtomFuncs ==
    { AtomFunc(TRUE, FALSE, FALSE, FALSE, FALSE, FALSE, FALSE, "raises"),
      AtomFunc(FALSE, TRUE, TRUE, TRUE, FALSE, FALSE, FALSE, "other"),
      AtomFunc(FALSE, TRUE, FALSE, FALSE, FALSE, TRUE, FALSE, "convex_nonaffine"),
      AtomFunc(FALSE, FALSE, TRUE, FALSE, FALSE, FALSE, FALSE, "raises"),
      AtomFunc(FALSE, FALSE, FALSE, FALSE, FALSE, FALSE, FALSE, "other") }

Libraries == [ATOM_MAP -> AtomFuncs]

\* the library of a run that never reaches it
NoLibrary == [n \in ATOM_MAP |-> AtomFunc(TRUE, FALSE, FALSE, FALSE, FALSE, FALSE, FALSE, "raises")]

Envs ==
    {Env(FALSE, None, NoLibrary)}
    \cup {Env(TRUE, None, NoLibrary)}
    \cup {Env(TRUE, Some(c), lib) : c \in Catalogs, lib \in Libraries}

\* the environments the runner's Python child is drawn from: those of Envs in
\* which every catalog atom has the same entry and the same behaviour
UniformEnvs ==
    {Env(FALSE, None, NoLibrary), Env(TRUE, None, NoLibrary)}
    \cup {Env(TRUE, Some(CatalogOf([n \in ATOM_MAP |-> ch])), [n \in ATOM_MAP |-> f]) :
            ch \in SpecChoices, f \in AtomFuncs}

\* ---- the validator process, step by step

ValidatorIdle ==
    /\ v_pc = "idle"
    /\ env = Env(FALSE, None, NoLibrary)
    /\ specs = None
    /\ v_results = <<>>
    /\ stdout = <<>>
    /\ v_exit = -1

ValidatorInit ==
    /\ v_pc = "import"
    /\ env \in Envs
    /\ specs = None
    /\ v_results = <<>>
    /\ stdout = <<>>
    /\ v_exit = -1

\* import cvxpy raised ImportError: print and sys.exit(1)
ImportFails ==
    /\ v_pc = "import"
    /\ ~env.cvxpy_installed
    /\ stdout' = stdout \o ImportErrorText
    /\ v_exit' = 1
    /\ v_pc' = "exited_import_error"
    /\ UNCHANGED <<env, specs, v_results>>

ImportOk ==
    /\ v_pc = "import"
    /\ env.cvxpy_installed
    /\ v_pc' = "main"
    /\ UNCHANGED <<env, specs, v_results, stdout, v_exit>>

\* main: load_specs() raises and the interpreter exits 1
LoadFails ==
    /\ v_pc = "main"
    /\ env.atoms_yaml = None
    /\ stdout' = stdout \o LoadingText
    /\ v_exit' = 1
    /\ v_pc' = "exited_load_error"
    /\ UNCHANGED <<env, specs, v_results>>

LoadOk ==
    /\ v_pc = "main"
    /\ env.atoms_yaml # None
    /\ specs' = env.atoms_yaml
    /\ stdout' = stdout \o LoadingText
                 \o LoadedText(Cardinality(DOMAIN all_atoms(env.atoms_yaml[1])))
    /\ v_pc' = "validate"
    /\ UNCHANGED <<env, v_results, v_exit>>

ValidateAll ==
    /\ v_pc = "validate"
    /\ v_results' = validate_all(specs[1], env.cvxpy)
    /\ stdout' = stdout \o ValidatingText \o validate_all_prints(1, specs[1], env.cvxpy)
    /\ v_pc' = "print"
    /\ UNCHANGED <<env, specs, v_exit>>

PrintResults ==
    /\ v_pc = "print"
    /\ stdout' = stdout \o print_results(v_results)
    /\ v_pc' = "exit"
    /\ UNCHANGED <<env, specs, v_results, v_exit>>

SysExit ==
    /\ v_pc = "exit"
    /\ v_exit' = main_exit(v_results)
    /\ v_pc' = "exited"
    /\ UNCHANGED <<env, specs, v_results, stdout>>

\* ---- run_all.main, step by step

Backends == {"python", "typescript", "rust"}

\* args.languages: argparse takes one or more of the four choices
ArgLanguages == ((SUBSET Backends) \ {{}}) \cup {{"all"}}

\* lines the TypeScript and Rust validators may print: a summary line, and
\* lines with the marker whose counts are not integers or have no "/"
SampleLines ==
    { <<"CVX", " ", "Validation", " ", "Results", ":", " ", "2", "/", "3", " ", "atoms", " ", "passed">>,
      <<"CVX", " ", "Validation", " ", "Results", ":", " ", "n", "/", "a">>,
      <<"CVX", " ", "Validation", " ", "Results", ":", " ", "none">> }

RECURSIVE TextsUpTo(_)
TextsUpTo(n) ==
    IF n = 0 THEN {<<>>}
    ELSE TextsUpTo(n - 1)
         \cup {t \o l \o <<"\n">> : t \in TextsUpTo(n - 1), l \in SampleLines}

Outputs == TextsUpTo(MaxLines)

ExitCodes == {0, 1}

\* a child that is not this repository's Python validator: whether the
\* directory it runs in exists, and what subprocess.run then meets
ExternalRuns ==
    {[dir_exists |-> FALSE, proc |-> Proc("none", -1, <<>>, <<>>, "")]}
    \cup {[dir_exists |-> TRUE, proc |-> p] :
            p \in {Proc("completed", rc, out, <<>>, "") : rc \in ExitCodes, out \in Outputs}
                  \cup {Proc("timeout", -1, <<>>, <<>>, ""),
                        Proc("not_found", -1, <<>>, <<>>, "[Errno 2] No such file or directory"),
                        Proc("os_error", -1, <<>>, <<>>, "[Errno 13] Permission denied")}}

\* the number of atoms of a validator run with a failed check
FailingAtoms(rs) ==
    Cardinality({i \in 1..Len(rs) : \E j \in 1..Len(rs[i].checks) : ~rs[i].checks[j][2]})

\* the Python validator as a child: a run of validate_cvxpy.py in some
\* environment, or a spawn that fails or times out
PythonRuns ==
    {[proc |-> Proc("completed", m.returncode, m.stdout, m.stderr, ""),
      phase |-> m.phase, failing |-> FailingAtoms(m.results)] :
        m \in {ValidatorMain(e) : e \in UniformEnvs}}
    \cup {[proc |-> p, phase |-> "none", failing |-> 0] :
            p \in {Proc("timeout", -1, <<>>, <<>>, ""),
                   Proc("not_found", -1, <<>>, <<>>, "[Errno 2] No such file or directory"),
                   Proc("os_error", -1, <<>>, <<>>, "[Errno 13] Permission denied")}}

Invocation(backend, kind, returncode, phase, failing) ==
    [backend |-> backend, kind |-> kind, returncode |-> returncode,
     phase |-> phase, failing |-> failing]

OrchIdle ==
    /\ pc = "idle"
    /\ args = [languages |-> {"all"}, json |-> FALSE]
    /\ languages = {}
    /\ results = <<>>
    /\ invoked = <<>>
    /\ report = [kind |-> "none", body |-> <<>>]
    /\ exit_status = -1

OrchInit ==
    /\ pc = "start"
    /\ args \in [languages : ArgLanguages, json : BOOLEAN]
    /\ languages = {}
    /\ results = <<>>
    /\ invoked = <<>>
    /\ report = [kind |-> "none", body |-> <<>>]
    /\ exit_status = -1

\* results = []; languages = args.languages, or all three under "all"
Start ==
    /\ pc = "start"
    /\ languages' = IF "all" \in args.languages THEN {"python", "typescript", "rust"}
                    ELSE args.languages
    /\ results' = <<>>
    /\ pc' = "python"
    /\ UNCHANGED <<args, invoked, report, exit_status>>

InvokePython ==
    /\ pc = "python"
    /\ "python" \in languages
    /\ \E run \in PythonRuns :
          /\ results' = Append(results, run_python_validator(run.proc))
          /\ invoked' = Append(invoked,
                 Invocation("python", run.proc.kind, run.proc.returncode, run.phase, run.failing))
    /\ pc' = "typescript"
    /\ UNCHANGED <<args, languages, report, exit_status>>

SkipPython ==
    /\ pc = "python"
    /\ "python" \notin languages
    /\ pc' = "typescript"
    /\ UNCHANGED <<args, languages, results, invoked, report, exit_status>>

InvokeTypescript ==
    /\ pc = "typescript"
    /\ "typescript" \in languages
    /\ \E run \in ExternalRuns :
          /\ results' = Append(results, run_typescript_validator(run.dir_exists, run.proc))
          /\ invoked' = Append(invoked,
                 Invocation("typescript", IF run.dir_exists THEN run.proc.kind ELSE "dir_missing",
                            run.proc.returncode, "external", 0))
    /\ pc' = "rust"
    /\ UNCHANGED <<args, languages, report, exit_status>>

SkipTypescript ==
    /\ pc = "typescript"
    /\ "typescript" \notin languages
    /\ pc' = "rust"
    /\ UNCHANGED <<args, languages, results, invoked, report, exit_status>>

\* InvokeRust giving up once an earlier backend did not succeed
InvokeRust_after_success ==
    /\ pc = "rust"
    /\ "rust" \in languages
    /\ IF \A i \in 1..Len(results) : results[i].success
       THEN \E run \in ExternalRuns :
               /\ results' = Append(results, run_rust_validator(run.dir_exists, run.proc))
               /\ invoked' = Append(invoked,
                      Invocation("rust", IF run.dir_exists THEN run.proc.kind ELSE "dir_missing",
                                 run.proc.returncode, "external", 0))
       ELSE UNCHANGED <<results, invoked>>
    /\ pc' = "report"
    /\ UNCHANGED <<args, languages, report, exit_status>>

InvokeRust ==
    /\ pc = "rust"
    /\ "rust" \in languages
    /\ \E run \in ExternalRuns :
          /\ results' = Append(results, run_rust_validator(run.dir_exists, run.proc))
          /\ invoked' = Append(invoked,
                 Invocation("rust", IF run.dir_exists THEN run.proc.kind ELSE "dir_missing",
                            run.proc.returncode, "external", 0))
    /\ pc' = "report"
    /\ UNCHANGED <<args, languages, report, exit_status>>

SkipRust ==
    /\ pc = "rust"
    /\ "rust" \notin languages
    /\ pc' = "report"
    /\ UNCHANGED <<args, languages, results, invoked, report, exit_status>>

\* the end of main: json.dumps(output) under --json, print_summary(results)
\* otherwise, then sys.exit(1) or the return from main
ReportAndExit ==
    /\ pc = "report"
    /\ report' = IF args.json THEN [kind |-> "json", body |-> json_output(results)]
                 ELSE [kind |-> "table", body |-> print_summary(results)]
    /\ exit_status' = main_exit_status(results)
    /\ pc' = "done"
    /\ UNCHANGED <<args, languages, results, invoked>>

\* ---- calls of the pure functions

Exprs ==
    [is_convex : BOOLEAN, is_concave : BOOLEAN, is_affine : BOOLEAN,
     is_constant : BOOLEAN, is_nonneg : BOOLEAN, is_nonpos : BOOLEAN]

AllAtomFuncs ==
    {[raises |-> TRUE, expr |-> CHOOSE x \in Exprs : \A f \in DOMAIN x : ~x[f], probe |-> "raises"]}
    \cup [raises : {FALSE}, expr : Exprs, probe : {"raises", "convex_nonaffine", "other"}]

AllAtomSpecs(name) ==
    {AtomSpec(name, c, s, "unary", d) :
        c \in Curvature, s \in Sign, d \in {None, Some("affine_arg"), Some("constant_arg")}}

Call(fn, arguments, ret) == [fn |-> fn, args |-> arguments, ret |-> ret]

FnIdle == call = Call("none", <<>>, <<>>)

CallCheckCurvature ==
    /\ call.fn = "none"
    /\ \E expr \in Exprs, expected \in Curvature :
          call' = Call("check_curvature", <<expr, expected>>, check_curvature(expr, expected))

CallCheckSign ==
    /\ call.fn = "none"
    /\ \E expr \in Exprs, expected \in Sign :
          call' = Call("check_sign", <<expr, expected>>, check_sign(expr, expected))

CallValidateAtom ==
    /\ call.fn = "none"
    /\ \E atom_name \in ATOM_MAP \cup {ExtraAtom}, atom_func \in AllAtomFuncs :
          \E spec \in AllAtomSpecs(atom_name) :
             call' = Call("validate_atom", <<atom_name, spec, atom_func>>,
                          validate_atom(atom_name, spec, [n \in ATOM_MAP |-> atom_func]))

\* the names check_dcp_with_non_affine is called with: unary atoms, quad_form
\* and the other binary atoms
DcpAtomNames == {CatalogNames[i] : i \in 1..Len(CatalogNames)}

CallCheckDcp ==
    /\ call.fn = "none"
    /\ \E atom_name \in DcpAtomNames, atom_func \in AllAtomFuncs :
          \E spec \in AllAtomSpecs(atom_name) :
             call' = Call("check_dcp_with_non_affine", <<atom_name, atom_func, spec>>,
                          check_dcp_with_non_affine(atom_name, atom_func, spec))

PartitionKeys == {"affine_atoms", "convex_atoms", "concave_atoms"}

SignTokens ==
    {"nonnegative", "nonpositive", "zero", "unknown",
     "from_value", "from_attributes", "preserve", "positive"}

RawSigns == {None, Some(Dict)} \cup {Some(Str(t)) : t \in SignTokens}

RawCurvatures ==
    {None, Some(Dict), Some(Str("convex")), Some(Str("preserve")), Some(Str("curved"))}

AllAtomData ==
    {AtomData(c, s, None, d) : c \in RawCurvatures, s \in RawSigns,
                               d \in {None, Some("affine_arg")}}

Document(affine_atoms, convex_atoms, concave_atoms) ==
    [affine_atoms |-> affine_atoms, convex_atoms |-> convex_atoms,
     concave_atoms |-> concave_atoms]

\* documents with one atom, of any content, in one section
SingleDocs ==
    {[k \in PartitionKeys |-> IF k = part THEN (n :> data) ELSE <<>>] :
        part \in PartitionKeys, n \in ATOM_MAP, data \in AllAtomData}

\* the content of an atom in a document with several atoms
FewAtomData ==
    {AtomData(None, None, None, None),
     AtomData(Some(Str("preserve")), Some(Str("zero")), Some("binary"), Some("affine_arg")),
     AtomData(Some(Str("curved")), Some(Str("nonnegative")), None, None)}

\* documents in which each section lists any of the names
Sections ==
    UNION {[names -> FewAtomData] : names \in SUBSET ATOM_MAP}

ManyDocs == {Document(a, b, c) : a \in Sections, b \in Sections, c \in Sections}

Sources == {None} \cup {Some(doc) : doc \in SingleDocs \cup ManyDocs}

CallLoadSpecs ==
    /\ call.fn = "none"
    /\ \E source \in Sources :
          call' = Call("load_specs", <<source>>, load_specs(source))

\* ---- the specifications

\* one run of run_all.py
Init == OrchInit /\ ValidatorIdle /\ FnIdle

Next ==
    \/ (Start /\ UNCHANGED val_vars /\ UNCHANGED call)
    \/ (InvokePython /\ UNCHANGED val_vars /\ UNCHANGED call)
    \/ (SkipPython /\ UNCHANGED val_vars /\ UNCHANGED call)
    \/ (InvokeTypescript /\ UNCHANGED val_vars /\ UNCHANGED call)
    \/ (SkipTypescript /\ UNCHANGED val_vars /\ UNCHANGED call)
    \/ (InvokeRust /\ UNCHANGED val_vars /\ UNCHANGED call)
    \/ (SkipRust /\ UNCHANGED val_vars /\ UNCHANGED call)
    \/ (ReportAndExit /\ UNCHANGED val_vars /\ UNCHANGED call)

Spec == Init /\ [][Next]_vars

\* one run of validate_cvxpy.py
InitValidator == OrchIdle /\ ValidatorInit /\ FnIdle

NextValidator ==
    \/ (ImportFails /\ UNCHANGED orch_vars /\ UNCHANGED call)
    \/ (ImportOk /\ UNCHANGED orch_vars /\ UNCHANGED call)
    \/ (LoadFails /\ UNCHANGED orch_vars /\ UNCHANGED call)
    \/ (LoadOk /\ UNCHANGED orch_vars /\ UNCHANGED call)
    \/ (ValidateAll /\ UNCHANGED orch_vars /\ UNCHANGED call)
    \/ (PrintResults /\ UNCHANGED orch_vars /\ UNCHANGED call)
    \/ (SysExit /\ UNCHANGED orch_vars /\ UNCHANGED call)

SpecValidator == InitValidator /\ [][NextValidator]_vars

\* one call of a function of the conformance algebra
InitFn == OrchIdle /\ ValidatorIdle /\ FnIdle

NextFn ==
    \/ (CallCheckCurvature /\ UNCHANGED orch_vars /\ UNCHANGED val_vars)
    \/ (CallCheckSign /\ UNCHANGED orch_vars /\ UNCHANGED val_vars)
    \/ (CallValidateAtom /\ UNCHANGED orch_vars /\ UNCHANGED val_vars)
    \/ (CallCheckDcp /\ UNCHANGED orch_vars /\ UNCHANGED val_vars)
    \/ (CallLoadSpecs /\ UNCHANGED orch_vars /\ UNCHANGED val_vars)

SpecFn == InitFn /\ [][NextFn]_vars

\* ===================================================================
\* The claims
\* ===================================================================

InfraKinds == {"timeout", "not_found", "os_error", "dir_missing"}

\* C1: a backend whose child process ran to completion is classified by its
\* exit code alone: PASS on exit code 0, FAIL on any other, whatever it printed.
C1_ExitCodeDecides ==
    \A i \in 1..Len(invoked) :
        invoked[i].kind = "completed" =>
            row_status(results[i]) = IF invoked[i].returncode = 0 THEN "PASS" ELSE "FAIL"

\* C2: the runner exits 1 exactly when some invoked backend's outcome is not
\* PASS, and 0 otherwise, in agreement with the overall line of the summary.
C2_ExitStatus ==
    pc = "done" =>
        /\ exit_status \in {0, 1}
        /\ (exit_status = 1) <=>
               (\E i \in 1..Len(results) : print_summary(results).rows[i].status # "PASS")
        /\ (exit_status = 0) <=> print_summary(results).all_passed
        /\ report.kind = "table" => ((exit_status = 0) <=> report.body.all_passed)

C2_Witness ==
    /\ pc = "done"
    /\ report.kind = "table"
    /\ Len(report.body.rows) = 2
    /\ report.body.rows[1].status = "PASS" /\ report.body.rows[1].total > 0
    /\ report.body.rows[2].status = "FAIL" /\ report.body.rows[2].total = 0
    /\ ~report.body.all_passed
    /\ exit_status = 1

\* C3: an invocation that could not be spawned, timed out or found its
\* directory or toolchain absent is ERROR with passed = 0, total = 0 and a
\* message; the table shows ERROR for it, the JSON array a non-null error; and
\* every FAIL outcome has a null error.
C3_ErrorDistinctFromFail ==
    \A i \in 1..Len(invoked) :
        /\ invoked[i].kind \in InfraKinds =>
              /\ results[i].passed = 0 /\ results[i].total = 0
              /\ Truthy(results[i].error)
              /\ ~results[i].success
              /\ report.kind = "table" =>
                    /\ report.body.rows[i].status = "ERROR"
                    /\ report.body.rows[i].error_line # None
              /\ report.kind = "json" => report.body[i].error # None
        /\ report.kind = "table" /\ report.body.rows[i].status = "FAIL" =>
              results[i].error = None /\ report.body.rows[i].error_line = None
        /\ report.kind = "json" /\ row_status(results[i]) = "FAIL" =>
              report.body[i].error = None

C3_Witness ==
    /\ pc = "done"
    /\ report.kind = "table"
    /\ Len(invoked) = 3
    /\ invoked[1].kind = "timeout" /\ report.body.rows[1].status = "ERROR"
    /\ invoked[2].kind = "dir_missing" /\ report.body.rows[2].status = "ERROR"
    /\ invoked[3].kind = "completed" /\ report.body.rows[3].status = "FAIL"

\* C4: the Python backend is FAIL only when the validator ran its validation
\* pass and some atom failed a check; a problem of the child's environment
\* (cvxpy missing, the specification not loadable) is not FAIL.
C4_FailIsConformance ==
    \A i \in 1..Len(invoked) :
        invoked[i].backend = "python" /\ row_status(results[i]) = "FAIL" =>
            invoked[i].phase = "validated" /\ invoked[i].failing >= 1

Requested == IF "all" \in args.languages THEN Backends ELSE args.languages

Label(b) ==
    CASE b = "python" -> "python/cvxpy"
      [] b = "typescript" -> "typescript/cvxjs"
      [] b = "rust" -> "rust/cvxrust"

\* C5: every requested backend is invoked exactly once whatever the earlier
\* outcomes, no other backend is invoked, and the report holds one outcome per
\* requested backend.
C5_EachRequestedOnce ==
    /\ Len(results) = Len(invoked)
    /\ \A i \in 1..Len(invoked) :
          /\ invoked[i].backend \in Requested
          /\ results[i].language = Label(invoked[i].backend)
          /\ \A j \in 1..Len(invoked) : i # j => invoked[i].backend # invoked[j].backend
    /\ pc \in {"report", "done"} =>
          /\ {invoked[i].backend : i \in 1..Len(invoked)} = Requested
          /\ Len(results) = Cardinality(Requested)
    /\ report.kind = "table" => Len(report.body.rows) = Cardinality(Requested)
    /\ report.kind = "json" => Len(report.body) = Cardinality(Requested)

C5_Witness ==
    /\ pc = "done"
    /\ Len(invoked) = 3
    /\ invoked[1].kind = "timeout"
    /\ invoked[2].kind = "completed" /\ row_status(results[2]) = "FAIL"
    /\ invoked[3].kind = "completed" /\ row_status(results[3]) = "PASS"

CheckNames(r) == [i \in 1..Len(r.checks) |-> r.checks[i][1]]
CheckFlags(r) == [i \in 1..Len(r.checks) |-> r.checks[i][2]]

\* C6: validate_atom records exists, creates_expr, curvature, sign and
\* dcp_requirement in this order; an unmapped atom has only a failed exists, a
\* failed construction only exists (passed) and creates_expr (failed); otherwise
\* all five are recorded, each of the last three with its own outcome, and the
\* aggregate flag is the conjunction of the recorded checks.
C6_CheckOrder ==
    call.fn = "validate_atom" =>
        LET atom_name == call.args[1]
            spec == call.args[2]
            atom_func == call.args[3]
            r == call.ret
        IN /\ r.atom_name = atom_name
           /\ atom_name \notin ATOM_MAP =>
                 CheckNames(r) = <<"exists">> /\ CheckFlags(r) = <<FALSE>>
           /\ atom_name \in ATOM_MAP /\ atom_func.raises =>
                 /\ CheckNames(r) = <<"exists", "creates_expr">>
                 /\ CheckFlags(r) = <<TRUE, FALSE>>
           /\ atom_name \in ATOM_MAP /\ ~atom_func.raises =>
                 /\ CheckNames(r) =
                        <<"exists", "creates_expr", "curvature", "sign", "dcp_requirement">>
                 /\ CheckFlags(r) =
                        <<TRUE, TRUE,
                          check_curvature(atom_func.expr, spec.curvature)[1],
                          check_sign(atom_func.expr, spec.sign)[1],
                          check_dcp_with_non_affine(atom_name, atom_func, spec)[1]>>
           /\ r.passed <=> (\A i \in 1..Len(r.checks) : r.checks[i][2])

C6_Witness ==
    /\ call.fn = "validate_atom"
    /\ Len(call.ret.checks) = 5
    /\ CheckFlags(call.ret) = <<TRUE, TRUE, FALSE, FALSE, TRUE>>
    /\ ~call.ret.passed

\* the atoms of a run with a failed check other than creates_expr
ConformanceFailures(rs) ==
    {i \in 1..Len(rs) :
        \E j \in 1..Len(rs[i].checks) :
            ~rs[i].checks[j][2] /\ rs[i].checks[j][1] # "creates_expr"}

\* C7: an atom whose test expression cannot be built is not a failing atom: it
\* neither lowers the passed count of the summary line below the total nor
\* raises the exit status.
C7_ConstructionFailureNotCounted ==
    v_pc = "exited" =>
        LET p == parse_output(stdout)
        IN /\ v_exit = Cardinality(ConformanceFailures(v_results))
           /\ p.total - p.passed = Cardinality(ConformanceFailures(v_results))

SummaryLine(passed, total) ==
    <<"CVXPY", " ", "Validation", " ", "Results", ":", " ">>
    \o DecStr(passed) \o <<"/">> \o DecStr(total) \o <<" ", "atoms", " ", "passed">>

\* C8: a run that completes prints exactly one summary line, with total the
\* number of catalog atoms the specification holds and passed the number of
\* those whose aggregate flag is true, and exits with total - passed, which is
\* 0 exactly when passed = total.
C8_SummaryAndExit ==
    v_pc = "exited" =>
        LET lines == SplitOn(stdout, "\n")
            summaries == {i \in 1..Len(lines) : Contains(lines[i], SummaryMarker)}
            present == {n \in ATOM_MAP : get(env.atoms_yaml[1], n) # None}
            total == Cardinality(present)
            passed == Cardinality({i \in 1..Len(v_results) : v_results[i].passed})
        IN /\ {v_results[i].atom_name : i \in 1..Len(v_results)} = present
           /\ Len(v_results) = total
           /\ Cardinality(summaries) = 1
           /\ \A i \in summaries : lines[i] = SummaryLine(passed, total)
           /\ v_exit = total - passed
           /\ (v_exit = 0) <=> (passed = total)

C8_Witness ==
    /\ v_pc = "exited"
    /\ Len(v_results) = 2
    /\ v_results[1].passed /\ ~v_results[2].passed
    /\ v_exit = 1
    /\ parse_output(stdout).passed = 1 /\ parse_output(stdout).total = 2

\* C9: check_curvature passes exactly when expected is unknown, or expected is
\* constant, affine, convex or concave and the flag of that name holds.
C9_CurvatureRule ==
    call.fn = "check_curvature" =>
        LET expr == call.args[1]
            expected == call.args[2]
        IN call.ret[1] <=>
              \/ expected = "unknown"
              \/ expected = "constant" /\ expr.is_constant
              \/ expected = "affine" /\ expr.is_affine
              \/ expected = "convex" /\ expr.is_convex
              \/ expected = "concave" /\ expr.is_concave

C9_Witness ==
    /\ call.fn = "check_curvature"
    /\ call.args[2] = "unknown"
    /\ \A f \in {"is_convex", "is_concave", "is_affine", "is_constant"} : ~call.args[1][f]
    /\ call.ret[1]

\* C10: every flag tuple check_curvature reports as "got affine" passes the
\* check against expected convex and against expected concave.
C10_AffineIsConvexAndConcave ==
    (call.fn = "check_curvature" /\ call.ret[2][8] = "affine"
        /\ call.args[2] \in {"convex", "concave"})
    => call.ret[1]

\* C11: for an atom that requires an affine argument and is not binary, the
\* composition check fails exactly when cvxpy accepts the atom on a convex
\* non-affine argument and reports the result convex and not affine; it passes
\* when cvxpy rejects the argument or reports anything else, and always passes
\* for atoms without the requirement and for binary atoms.
C11_DcpCheckDecides ==
    call.fn = "check_dcp_with_non_affine" =>
        LET atom_name == call.args[1]
            atom_func == call.args[2]
            spec == call.args[3]
        IN call.ret[1] <=>
              \/ ~requires_affine_arg(spec)
              \/ atom_name \in BINARY_ATOMS
              \/ atom_func.probe # "convex_nonaffine"

SignLiterals == {"nonnegative", "nonpositive", "zero", "unknown"}
SignSentinels == {"from_value", "from_attributes", "preserve"}

\* the section of a document and the dict of the catalog loaded from it
CatalogKeyOf(sp, part) ==
    CASE part = "affine_atoms" -> sp.affine_atoms
      [] part = "convex_atoms" -> sp.convex_atoms
      [] part = "concave_atoms" -> sp.concave_atoms

\* C12: an atom's sign token loads as the Sign of the same name when it is
\* nonnegative, nonpositive, zero or unknown, as unknown when it is one of the
\* context-dependent sentinels, and any other token makes the load fail.
C12_SignTokens ==
    (call.fn = "load_specs" /\ call.args[1] # None) =>
        LET doc == call.args[1][1]
        IN \A part \in PartitionKeys : \A n \in DOMAIN doc[part] :
              LET raw == DictGet(doc[part][n].sign, Str("unknown"))
              IN isinstance_str(raw) =>
                    /\ raw[2] \in SignLiterals /\ call.ret # None =>
                          CatalogKeyOf(call.ret[1], part)[n].sign = raw[2]
                    /\ raw[2] \in SignSentinels /\ call.ret # None =>
                          CatalogKeyOf(call.ret[1], part)[n].sign = "unknown"
                    /\ raw[2] \notin SignLiterals \cup SignSentinels => call.ret = None

\* C13: in every catalog load_specs returns, get(n) and all_atoms()[n] are the
\* same AtomSpec for every name n, and all_atoms() has as many atoms as the
\* three partitions together.
C13_LookupUnambiguous ==
    (call.fn = "load_specs" /\ call.ret # None) =>
        LET sp == call.ret[1]
            all == all_atoms(sp)
        IN /\ \A n \in ATOM_MAP :
                 get(sp, n) = IF n \in DOMAIN all THEN Some(all[n]) ELSE None
           /\ Cardinality(DOMAIN all) =
                 Cardinality(DOMAIN sp.affine_atoms) + Cardinality(DOMAIN sp.convex_atoms)
                 + Cardinality(DOMAIN sp.concave_atoms)

====
